---- MODULE Spec2Model ----
(***************************************************************************)
(* A model of build_static_site.py: the static-site generator that turns   *)
(* an Obsidian-style folder of markdown documents into HTML pages.         *)
(*                                                                         *)
(* Strings are sequences of one-character strings, paths are sequences of  *)
(* path components (each a string), so that sanitising, case folding,      *)
(* prefix stripping and marker parsing are computed character by           *)
(* character as the Python code computes them.                             *)
(***************************************************************************)
EXTENDS Naturals, Integers, Sequences, FiniteSets, TLC

VARIABLES
    pc,          \* position of the running function
    md5,         \* hashlib.md5(...).hexdigest()[:6], as a table: rel path string -> 6 hex chars
    arg_stem,    \* _sanitize_stem_for_windows: argument stem
    arg_rel,     \* _sanitize_stem_for_windows: argument rel_path_for_hash
    ret_stem,    \* _sanitize_stem_for_windows: returned stem
    docs,        \* relative_output_html: the Documents (paths relative to input_root) of one build
    out_html,    \* relative_output_html: Document -> output path relative to output_root
    md_files,    \* write_pages: the flat ordered list of included Documents
    title_map,   \* write_pages: Document -> canonical title
    embed_html_map,  \* write_pages: Document -> HTML of its raw text
    wikilink_index,  \* build_wikilink_index: lowercased key -> Document
    loop_i,      \* number of list entries the running loop has handled
    current_md_path, \* replace_wikilinks_with_embeds: the page being assembled
    md_text,     \* the raw text of the page being assembled
    md_text_embeds,  \* replace_wikilinks_with_embeds: its result
    fs,          \* the files of the filesystem: absolute path -> content
    dirs,        \* the directories of the filesystem (absolute paths)
    fs_start,    \* fs when main() was entered
    dirs_start,  \* dirs when main() was entered
    input_root,  \* main: args.input, resolved
    output_root, \* main: args.output, resolved
    nav_root,    \* write_pages: the tree build_nav_tree returned
    page_order,  \* write_pages: the order in which the per-page loop takes md_files
    title_stem,  \* strip_numeric_prefix: argument stem
    stripped_title,  \* strip_numeric_prefix: returned title
    stripped_again   \* strip_numeric_prefix applied to the returned title

mapperVars == <<arg_stem, arg_rel, ret_stem, docs, out_html>>
linkVars == <<md_files, title_map, embed_html_map, wikilink_index, loop_i,
              current_md_path, md_text, md_text_embeds>>
buildVars == <<fs, dirs, fs_start, dirs_start, input_root, output_root, nav_root, page_order>>
titleVars == <<title_stem, stripped_title, stripped_again>>
vars == <<pc, md5, mapperVars, linkVars, buildVars, titleVars>>

\* dict.get(key) of a missing key, and a variable not yet assigned
None == << >>

(***************************************************************************)
(* Characters                                                              *)
(***************************************************************************)

\* The characters of the model in ASCII order (str comparison is by code point).
AsciiOrder ==
    << "\t", "\n", " ", "\"", "#", "&", "'", "*", "-", ".", "/",
       "0", "1", "2", "3", "4", "5", "6", "7", "8", "9",
       ":", ";", "<", ">", "?",
       "A", "B", "C", "D", "E", "F", "G", "H", "I", "J", "K", "L", "M",
       "N", "O", "P", "Q", "R", "S", "T", "U", "V", "W", "X", "Y", "Z",
       "[", "\\", "]", "_",
       "a", "b", "c", "d", "e", "f", "g", "h", "i", "j", "k", "l", "m",
       "n", "o", "p", "q", "r", "s", "t", "u", "v", "w", "x", "y", "z",
       "|" >>

Ord(c) == CHOOSE i \in 1..Len(AsciiOrder) : AsciiOrder[i] = c

UpperLetters == << "A", "B", "C", "D", "E", "F", "G", "H", "I", "J", "K", "L", "M",
                   "N", "O", "P", "Q", "R", "S", "T", "U", "V", "W", "X", "Y", "Z" >>
LowerLetters == << "a", "b", "c", "d", "e", "f", "g", "h", "i", "j", "k", "l", "m",
                   "n", "o", "p", "q", "r", "s", "t", "u", "v", "w", "x", "y", "z" >>

Digits == {"0", "1", "2", "3", "4", "5", "6", "7", "8", "9"}

AllChars == {AsciiOrder[k] : k \in 1..Len(AsciiOrder)}

\* str.lower() and str.upper() on one character
LowerChar ==
    [c \in AllChars |->
        IF \E i \in 1..26 : UpperLetters[i] = c
        THEN LowerLetters[CHOOSE i \in 1..26 : UpperLetters[i] = c]
        ELSE c]
UpperChar ==
    [c \in AllChars |->
        IF \E i \in 1..26 : LowerLetters[i] = c
        THEN UpperLetters[CHOOSE i \in 1..26 : LowerLetters[i] = c]
        ELSE c]

lower(s) == [i \in 1..Len(s) |-> LowerChar[s[i]]]
upper(s) == [i \in 1..Len(s) |-> UpperChar[s[i]]]

\* Python whitespace (str.strip() with no argument, regex \s), as far as the model has it
WhiteSpace == {" ", "\t", "\n"}

Min(a, b) == IF a < b THEN a ELSE b

\* s[:n]
Take(s, n) == SubSeq(s, 1, Min(n, Len(s)))
\* s[n:]   (n counted from 0 as in Python)
Drop(s, n) == SubSeq(s, n + 1, Len(s))

\* str.strip(chars): drop leading and trailing characters that are in chars
strip(s, chars) ==
    LET keep == {i \in 1..Len(s) : s[i] \notin chars}
    IN  IF keep = {} THEN << >>
        ELSE LET first == CHOOSE i \in keep : \A j \in keep : i <= j
                 last  == CHOOSE i \in keep : \A j \in keep : j <= i
             IN  SubSeq(s, first, last)

startswith(s, p) == Len(s) >= Len(p) /\ SubSeq(s, 1, Len(p)) = p
endswith(s, p) == Len(s) >= Len(p) /\ SubSeq(s, Len(s) - Len(p) + 1, Len(s)) = p

\* a < b for str
StrLess(a, b) ==
    \E i \in 1..(Len(b)) :
        /\ SubSeq(a, 1, Min(i - 1, Len(a))) = SubSeq(b, 1, i - 1)
        /\ (Len(a) < i \/ (Len(a) >= i /\ Ord(a[i]) < Ord(b[i])))

RECURSIVE Join(_, _)
\* sep.join(parts)
Join(parts, sep) ==
    IF parts = << >> THEN << >>
    ELSE IF Len(parts) = 1 THEN parts[1]
    ELSE parts[1] \o sep \o Join(Tail(parts), sep)

(***************************************************************************)
(* pathlib: a path is a sequence of components                             *)
(***************************************************************************)

\* PurePath.name
name(p) == p[Len(p)]
\* PurePath.parent
parent(p) == SubSeq(p, 1, Len(p) - 1)
\* PurePath.as_posix()
as_posix(p) == Join(p, <<"/">>)

\* index of the last "." of a file name, 0 when there is none
LastDot(n) ==
    LET ds == {i \in 1..Len(n) : n[i] = "."}
    IN  IF ds = {} THEN 0 ELSE CHOOSE i \in ds : \A j \in ds : j <= i

\* PurePath.suffix: from the last dot, unless the dot is first or last
suffix(p) ==
    LET n == name(p)  i == LastDot(n)
    IN  IF 1 < i /\ i < Len(n) THEN SubSeq(n, i, Len(n)) ELSE << >>
\* PurePath.stem
stem(p) ==
    LET n == name(p)  i == LastDot(n)
    IN  IF 1 < i /\ i < Len(n) THEN SubSeq(n, 1, i - 1) ELSE n

\* PurePath.with_suffix(s)
with_suffix(p, s) == parent(p) \o << stem(p) \o s >>

DotMd == << ".", "m", "d" >>
DotMarkdown == << ".", "m", "a", "r", "k", "d", "o", "w", "n" >>
DotHtml == << ".", "h", "t", "m", "l" >>
IndexMd == << "i", "n", "d", "e", "x", ".", "m", "d" >>
IndexHtml == << "i", "n", "d", "e", "x", ".", "h", "t", "m", "l" >>

is_markdown_file(p) == lower(suffix(p)) \in {DotMd, DotMarkdown}

(***************************************************************************)
(* Path Mapper                                                             *)
(***************************************************************************)

WINDOWS_RESERVED_NAMES ==
    { <<"C","O","N">>, <<"P","R","N">>, <<"A","U","X">>, <<"N","U","L">> }
    \cup { <<"C","O","M", d>> : d \in Digits \ {"0"} }
    \cup { <<"L","P","T", d>> : d \in Digits \ {"0"} }

\* re.sub(r'[<>:"/\\|?*]', "-", stem): the class of the first substitution
InvalidChars == {"<", ">", ":", "\"", "/", "\\", "|", "?", "*"}
\* [\x00-\x1F], as far as the model has it
ControlChars == {"\t", "\n"}

max_len == 80
untitled == << "u", "n", "t", "i", "t", "l", "e", "d" >>

\* hashlib.md5(rel_path_for_hash.encode("utf-8")).hexdigest()[:6]
digest(rel_path_for_hash) == md5[rel_path_for_hash]

ReplaceInvalid(s) == [i \in 1..Len(s) |-> IF s[i] \in InvalidChars THEN "-" ELSE s[i]]

RemoveControl(s) == SelectSeq(s, LAMBDA c : c \notin ControlChars)

\* a faulty variant: the comparison is case sensitive
IsReservedCaseSensitive(s) == s \in WINDOWS_RESERVED_NAMES
IsReserved(s) == upper(s) \in WINDOWS_RESERVED_NAMES

\* a faulty variant: the stem is not cut to make room for the suffix
sanitize_stem_suffix_unfitted(stem0, rel_path_for_hash) ==
    LET s3        == strip(RemoveControl(ReplaceInvalid(stem0)), {" ", "."})
        truncated == Len(s3) > max_len
        s4        == IF truncated THEN Take(s3, max_len) ELSE s3
        reserved  == IsReserved(s4)
        s5        == IF reserved THEN s4 \o <<"_">> ELSE s4
        s6        == IF s3 # stem0 \/ reserved \/ truncated
                     THEN s5 \o <<"-">> \o digest(rel_path_for_hash)
                     ELSE s5
        s7        == strip(s6, {" ", "."})
    IN  IF s7 = << >> THEN untitled ELSE s7

sanitize_stem_for_windows(stem0, rel_path_for_hash) ==
    LET original  == stem0
        s1        == ReplaceInvalid(stem0)
        s2        == RemoveControl(s1)
        s3        == strip(s2, {" ", "."})
        changed0  == s3 # original
        truncated == Len(s3) > max_len
        s4        == IF truncated THEN Take(s3, max_len) ELSE s3
        reserved  == IsReserved(s4)
        s5        == IF reserved THEN s4 \o <<"_">> ELSE s4
        changed   == changed0 \/ reserved
        sfx       == <<"-">> \o digest(rel_path_for_hash)
        s6        == IF changed \/ truncated
                     THEN (IF Len(s5) + Len(sfx) > max_len
                           THEN Take(s5, max_len - Len(sfx)) ELSE s5) \o sfx
                     ELSE s5
        s7        == strip(s6, {" ", "."})
    IN  IF s7 = << >> THEN untitled ELSE s7

\* rel is md_path.relative_to(input_root); the result is relative to output_root
relative_output_html(rel) ==
    IF lower(name(rel)) = IndexMd /\ parent(rel) = << >>
    THEN << IndexHtml >>
    ELSE IF lower(name(rel)) = IndexMd
    THEN with_suffix(rel, DotHtml)
    ELSE parent(rel) \o << sanitize_stem_for_windows(stem(rel), as_posix(rel)) \o DotHtml >>

(***************************************************************************)
(* Title Resolver                                                          *)
(***************************************************************************)

\* length of the longest run of characters of class cls that starts at s[i]
RunIn(s, i, cls) ==
    LET stops == {j \in i..Len(s) : s[j] \notin cls}
    IN  IF i > Len(s) THEN 0
        ELSE IF stops = {} THEN Len(s) - i + 1
        ELSE (CHOOSE j \in stops : \A k \in stops : j <= k) - i

\* [\d._-] and [-_. ] of the ordinal pattern
OrdinalChars == Digits \cup {".", "_", "-"}
SepChars == {"-", "_", ".", " "}

\* Number of characters that  ^\s*\d[\d._-]*\s*[-_. ]\s*  matches at the start of
\* s, 0 when it does not match.  The greedy quantifiers give back what they took
\* from the right, the later quantifier first, so the match is the one with the
\* longest [\d._-]* and then the longest \s* before the separator.
OrdinalMatchEnd(s) ==
    LET d == RunIn(s, 1, WhiteSpace) + 1
    IN  IF ~(d <= Len(s) /\ s[d] \in Digits) THEN 0
        ELSE LET B == RunIn(s, d + 1, OrdinalChars)
                 Cands == { x \in (0..B) \X (0..Len(s)) :
                              /\ x[2] <= RunIn(s, d + x[1] + 1, WhiteSpace)
                              /\ d + x[1] + x[2] + 1 <= Len(s)
                              /\ s[d + x[1] + x[2] + 1] \in SepChars }
             IN  IF Cands = {} THEN 0
                 ELSE LET best == CHOOSE x \in Cands : \A y \in Cands :
                                      y[1] < x[1] \/ (y[1] = x[1] /\ y[2] <= x[2])
                          sep == d + best[1] + best[2] + 1
                      IN  sep + RunIn(s, sep + 1, WhiteSpace)

\* a faulty variant: the empty result is returned as it is
strip_numeric_prefix_no_fallback(s) == strip(Drop(s, OrdinalMatchEnd(s)), WhiteSpace)

strip_numeric_prefix(s) ==
    LET cleaned == strip(Drop(s, OrdinalMatchEnd(s)), WhiteSpace)
    IN  IF cleaned = << >> THEN s ELSE cleaned

(***************************************************************************)
(* HTML helpers                                                            *)
(***************************************************************************)

\* html.escape(s) (quote=True)
EscapeChar(c) ==
    CASE c = "&" -> << "&", "a", "m", "p", ";" >>
      [] c = "<" -> << "&", "l", "t", ";" >>
      [] c = ">" -> << "&", "g", "t", ";" >>
      [] c = "\"" -> << "&", "q", "u", "o", "t", ";" >>
      [] c = "'" -> << "&", "#", "x", "2", "7", ";" >>
      [] OTHER -> << c >>

RECURSIVE html_escape(_)
html_escape(s) == IF s = << >> THEN << >> ELSE EscapeChar(Head(s)) \o html_escape(Tail(s))

\* length of the longest common prefix of two paths
CommonLen(a, b) ==
    LET same == {n \in 0..Min(Len(a), Len(b)) : SubSeq(a, 1, n) = SubSeq(b, 1, n)}
    IN  CHOOSE n \in same : \A m \in same : m <= n

\* os.path.relpath(target, start=start_dir), both under output_root
relpath(target, start_dir) ==
    LET c == CommonLen(target, start_dir)
        ups == [i \in 1..(Len(start_dir) - c) |-> << ".", "." >>]
        rest == ups \o Drop(target, c)
    IN  IF rest = << >> THEN << <<".">> >> ELSE rest

\* html.escape(os.path.relpath(target, start=current_out_dir).replace(os.sep, "/"))
rel_href(target, current_out_dir) == html_escape(Join(relpath(target, current_out_dir), <<"/">>))

\* markdown.markdown(md_text, ...): the external converter, a function of its input
convert_markdown_to_html(text) == [html_of |-> text]

(***************************************************************************)
(* Inclusion rules of write_pages                                          *)
(***************************************************************************)

\* input_root.rglob("*.md"): the name ends with ".md" (case-sensitive match)
glob_star_md(rel) == endswith(name(rel), DotMd)

\* write_pages._is_included_md, on the path relative to input_root
is_included_md(rel) ==
    IF startswith(name(rel), <<".">>) THEN FALSE
    ELSE IF parent(rel) = << >> THEN lower(name(rel)) = IndexMd
    ELSE rel[1] # << >> /\ rel[1][1] \in Digits

(***************************************************************************)
(* Inputs                                                                  *)
(***************************************************************************)

RECURSIVE Concats(_, _)
\* every concatenation of at most n members of atoms
Concats(atoms, n) ==
    IF n = 0 THEN { << >> }
    ELSE LET prev == Concats(atoms, n - 1)
         IN  prev \cup { s \o a : s \in prev, a \in atoms }

\* three values hexdigest()[:6] can take
Digests == { <<"d","4","1","d","8","c">>, <<"0","c","c","1","7","5">>, <<"9","8","f","1","3","7">> }

MaxStemAtoms == 2
MaxPathAtoms == 2

Index == << "i", "n", "d", "e", "x" >>
LongRun == [i \in 1..(max_len - 1) |-> "x"]

StemAtoms ==
    { <<"a">>, <<":">>, <<"\t">>, <<" ">>, <<".">>, <<"-">>, <<"_">>,
      <<"c","o","n">>, <<"N","U","L">>, <<"C","o","m","1">>,
      <<"I">> \o Tail(Index), LongRun }
StemInputs == Concats(StemAtoms, MaxStemAtoms)

Section == << "1", "-", "a" >>
Dirs == { << >>, << Section >> }

PathAtoms ==
    { <<"a">>, <<"A">>, <<":">>, <<"?">>, <<"-">>, Index, <<"I">> \o Tail(Index) }
    \cup { <<"-">> \o d : d \in Digests }
PathInputs ==
    { p \in { d \o << s \o DotMd >> : d \in Dirs, s \in Concats(PathAtoms, MaxPathAtoms) } :
        glob_star_md(p) /\ is_included_md(p) }

Injective(f) == \A x, y \in DOMAIN f : x # y => f[x] # f[y]

\* the variables of the link index and the rewriter, where they play no part
LinkUnused ==
    /\ md_files = << >>
    /\ title_map = << >>
    /\ embed_html_map = << >>
    /\ wikilink_index = << >>
    /\ loop_i = 0
    /\ current_md_path = None
    /\ md_text = << >>
    /\ md_text_embeds = << >>

\* the variables of main() and write_pages, where they play no part
BuildUnused ==
    /\ fs = << >>
    /\ dirs = {}
    /\ fs_start = << >>
    /\ dirs_start = {}
    /\ input_root = << >>
    /\ output_root = << >>
    /\ nav_root = << >>
    /\ page_order = << >>

\* the variables of the title resolver, where they play no part
TitleUnused ==
    /\ title_stem = << >>
    /\ stripped_title = << >>
    /\ stripped_again = << >>

\* the variables of the path mapper, where they play no part
MapperUnused ==
    /\ arg_stem = << >>
    /\ arg_rel = << >>
    /\ ret_stem = << >>
    /\ docs = << >>
    /\ out_html = << >>

(***************************************************************************)
(* SpecSanitize: _sanitize_stem_for_windows applied to one stem            *)
(***************************************************************************)

InitSanitize ==
    /\ pc = "sanitize"
    /\ arg_stem \in StemInputs
    /\ docs \in { << d \o << arg_stem \o DotMd >> >> : d \in Dirs }
    /\ arg_rel = as_posix(docs[1])
    /\ md5 \in [{arg_rel} -> Digests]
    /\ ret_stem = << >>
    /\ out_html = << << >> >>
    /\ LinkUnused
    /\ BuildUnused
    /\ TitleUnused

\* safe_stem = _sanitize_stem_for_windows(Path(rel).stem, rel_str_for_hash)
CallSanitize ==
    /\ pc = "sanitize"
    /\ ret_stem' = sanitize_stem_for_windows(arg_stem, arg_rel)
    /\ pc' = "sanitized"
    /\ UNCHANGED <<md5, titleVars, arg_stem, arg_rel, docs, out_html, linkVars, buildVars>>

\* relative_output_html(input_root, output_root, md_path) of the same file
CallRelativeOutputHtml ==
    /\ out_html[1] = << >>
    /\ out_html' = << relative_output_html(docs[1]) >>
    /\ UNCHANGED <<pc, md5, titleVars, arg_stem, arg_rel, ret_stem, docs, linkVars, buildVars>>

NextSanitize == CallSanitize \/ CallRelativeOutputHtml

SpecSanitize == InitSanitize /\ [][NextSanitize]_vars

\* what C2 asks of an output file stem
SafeStem(s) ==
    /\ \A i \in 1..Len(s) : s[i] \notin InvalidChars /\ s[i] \notin ControlChars
    /\ s # << >> => s[1] \notin {" ", "."} /\ s[Len(s)] \notin {" ", "."}
    /\ upper(s) \notin WINDOWS_RESERVED_NAMES

\* C2: every stem the Path Mapper returns has no character of < > : " / \ | ? *,
\* no control character, no leading or trailing space or dot, and is no reserved
\* device name in any letter case.
C2_SafeStem ==
    /\ pc = "sanitized" => SafeStem(ret_stem)
    /\ out_html[1] # << >> => SafeStem(stem(out_html[1]))

\* a reserved name in lower or mixed case went through the mapper
C2_Witness ==
    /\ pc = "sanitized"
    /\ out_html[1] # << >>
    /\ arg_stem \notin WINDOWS_RESERVED_NAMES
    /\ upper(arg_stem) \in WINDOWS_RESERVED_NAMES
    /\ ret_stem = arg_stem \o <<"_", "-">> \o md5[arg_rel]
    /\ stem(out_html[1]) = ret_stem

(***************************************************************************)
(* SpecPath: relative_output_html applied to the Documents of one build    *)
(***************************************************************************)

InitPath ==
    /\ pc = "map"
    /\ docs \in { <<p, q>> : p, q \in PathInputs }
    /\ StrLess(as_posix(docs[1]), as_posix(docs[2]))
    \* the six hex digits of distinct paths are taken to be distinct
    /\ md5 \in { f \in [{as_posix(docs[1]), as_posix(docs[2])} -> Digests] : Injective(f) }
    /\ out_html = [i \in 1..2 |-> << >>]
    /\ arg_stem = << >>
    /\ arg_rel = << >>
    /\ ret_stem = << >>
    /\ LinkUnused
    /\ BuildUnused
    /\ TitleUnused

MapDocument(i) ==
    /\ pc = "map"
    /\ out_html[i] = << >>
    /\ out_html' = [out_html EXCEPT ![i] = relative_output_html(docs[i])]
    /\ UNCHANGED <<pc, md5, titleVars, arg_stem, arg_rel, ret_stem, docs, linkVars, buildVars>>

NextPath == \E i \in 1..2 : MapDocument(i)

SpecPath == InitPath /\ [][NextPath]_vars

Mapped(i) == out_html[i] # << >>

\* C1: distinct included Documents of one build get distinct output paths.
C1_DistinctOutputs ==
    \A i, j \in 1..2 : (i # j /\ Mapped(i) /\ Mapped(j)) => out_html[i] # out_html[j]

NamedIndex(rel) == lower(name(rel)) = IndexMd

\* C3: a root document named index (any case) maps to index.html of the output
\* root; one in a subfolder maps to index.html of that subfolder, never the root's.
C3_IndexMapping ==
    \A i \in 1..2 : (Mapped(i) /\ NamedIndex(docs[i])) =>
        IF parent(docs[i]) = << >>
        THEN out_html[i] = << IndexHtml >>
        ELSE out_html[i] = parent(docs[i]) \o << IndexHtml >> /\ out_html[i] # << IndexHtml >>

(***************************************************************************)
(* Link Index                                                              *)
(***************************************************************************)

\* title_map.get(p, strip_numeric_prefix(p.stem))
TitleOf(tm, p) == IF p \in DOMAIN tm THEN tm[p] ELSE strip_numeric_prefix(stem(p))

\* {stem, stripped, title} without the empty key, lowercased
KeysToRegister(p, tm) ==
    { lower(k) : k \in { k \in {stem(p), strip_numeric_prefix(stem(p)), TitleOf(tm, p)} : k # << >> } }

\* a faulty variant of one loop iteration: index[key.lower()] = p
RegisterOverwriting(index, p, tm) ==
    LET ks == KeysToRegister(p, tm)
    IN  [k \in DOMAIN index \cup ks |-> IF k \in ks THEN p ELSE index[k]]

\* one iteration of the loop of build_wikilink_index: index.setdefault(key.lower(), p)
RegisterDocument(index, p, tm) ==
    LET ks == KeysToRegister(p, tm)
    IN  [k \in DOMAIN index \cup ks |-> IF k \in DOMAIN index THEN index[k] ELSE p]

RECURSIVE RegisterAll(_, _, _)
RegisterAll(index, md_paths, tm) ==
    IF md_paths = << >> THEN index
    ELSE RegisterAll(RegisterDocument(index, Head(md_paths), tm), Tail(md_paths), tm)

build_wikilink_index(md_paths, tm) == RegisterAll(<< >>, md_paths, tm)

(***************************************************************************)
(* Reference Rewriter                                                      *)
(***************************************************************************)

\* The rewritten text is a sequence of items: a character of the page text, or
\* the collapsible block that replaces a resolved marker (the values the
\* f-string of _repl interpolates, and target_md, the Document it resolved to).
Chr(c) == [chr |-> c]
Lit(text) == [i \in 1..Len(text) |-> Chr(text[i])]
IsEmbed(item) == "summary" \in DOMAIN item

NoMatch == [ok |-> FALSE]

\* the character classes [^\]|#], [^\]|] and [^\]] of the marker pattern
TargetClass == AllChars \ {"]", "|", "#"}
FragmentClass == AllChars \ {"]", "|"}
AliasClass == AllChars \ {"]"}

\* pattern.match at position i of text, for the pattern
\*   \[\[([^\]|#]+)(?:#[^\]|]+)?(?:\|([^\]]+))?\]\]
\* Each group is a greedy run of a class that excludes the character that must
\* follow it, so giving back characters never helps: the runs are maximal.
MatchAt(text, i) ==
    IF ~(i + 1 <= Len(text) /\ text[i] = "[" /\ text[i + 1] = "[") THEN NoMatch
    ELSE
    LET t0 == i + 2
        n == RunIn(text, t0, TargetClass)
        afterT == t0 + n
        hasHash == afterT <= Len(text) /\ text[afterT] = "#"
        m == IF hasHash THEN RunIn(text, afterT + 1, FragmentClass) ELSE 0
        afterF == IF hasHash THEN afterT + 1 + m ELSE afterT
        hasBar == afterF <= Len(text) /\ text[afterF] = "|"
        a == IF hasBar THEN RunIn(text, afterF + 1, AliasClass) ELSE 0
        afterA == IF hasBar THEN afterF + 1 + a ELSE afterF
        closes == afterA + 1 <= Len(text) /\ text[afterA] = "]" /\ text[afterA + 1] = "]"
    IN  IF n = 0 \/ (hasHash /\ m = 0) \/ (hasBar /\ a = 0) \/ ~closes THEN NoMatch
        ELSE [ok |-> TRUE, start |-> i, end |-> afterA + 1,
              group1 |-> SubSeq(text, t0, afterT - 1),
              group2 |-> IF hasBar THEN SubSeq(text, afterF + 1, afterA - 1) ELSE None]

\* a faulty variant: the ordinal-stripped form is tried first
ResolveStrippedFirst(target) ==
    LET key == lower(target)
        stripped == lower(strip_numeric_prefix(target))
    IN  IF stripped \in DOMAIN wikilink_index THEN wikilink_index[stripped]
        ELSE IF key \in DOMAIN wikilink_index THEN wikilink_index[key]
        ELSE None

\* _repl: the two lookups of target in wikilink_index
Resolve(target) ==
    LET key == lower(target)
        stripped == lower(strip_numeric_prefix(target))
    IN  IF key \in DOMAIN wikilink_index THEN wikilink_index[key]
        ELSE IF stripped \in DOMAIN wikilink_index THEN wikilink_index[stripped]
        ELSE None

\* the <details class="embed-block mb-3"> block of _repl
EmbedBlock(target_md, cur) ==
    [ open      |-> FALSE,
      summary   |-> html_escape(TitleOf(title_map, target_md)),
      inner_html |-> IF target_md \in DOMAIN embed_html_map THEN embed_html_map[target_md] ELSE << >>,
      href      |-> rel_href(relative_output_html(target_md), parent(relative_output_html(cur))),
      target_md |-> target_md ]

\* a faulty variant: the alias, when there is one, is shown as the label
ReplAliasLabel(text, m, cur) ==
    LET target_md == Resolve(strip(m.group1, WhiteSpace))
    IN  IF target_md = None THEN Lit(SubSeq(text, m.start, m.end))
        ELSE IF m.group2 # None
        THEN << [EmbedBlock(target_md, cur) EXCEPT !.summary = html_escape(m.group2)] >>
        ELSE << EmbedBlock(target_md, cur) >>

\* a faulty variant: an unresolved marker is dropped from the text
ReplDropUnresolved(text, m, cur) ==
    LET target_md == Resolve(strip(m.group1, WhiteSpace))
    IN  IF target_md = None THEN << >> ELSE << EmbedBlock(target_md, cur) >>

\* _repl(match): what replaces the match m of text
Repl(text, m, cur) ==
    LET target_md == Resolve(strip(m.group1, WhiteSpace))
    IN  IF target_md = None THEN Lit(SubSeq(text, m.start, m.end))
        ELSE << EmbedBlock(target_md, cur) >>

RECURSIVE SubFrom(_, _, _)
\* pattern.sub(_repl, md_text) from position i on: leftmost matches, not overlapping
SubFrom(text, i, cur) ==
    IF i > Len(text) THEN << >>
    ELSE LET m == MatchAt(text, i)
         IN  IF m.ok THEN Repl(text, m, cur) \o SubFrom(text, m.end + 1, cur)
             ELSE << Chr(text[i]) >> \o SubFrom(text, i + 1, cur)

replace_wikilinks_with_embeds(text, cur) == SubFrom(text, 1, cur)

(***************************************************************************)
(* The flat ordered list of write_pages                                    *)
(***************************************************************************)

\* the sort key of md_files.sort: (0 for input_root/index.md, else 1; str(p).lower())
SortFlag(rel) == IF rel = << IndexMd >> THEN 0 ELSE 1
KeyLeq(p, q) ==
    \/ SortFlag(p) < SortFlag(q)
    \/ /\ SortFlag(p) = SortFlag(q)
       /\ ~StrLess(lower(as_posix(q)), lower(as_posix(p)))

\* the lists a sort of the Documents S can give (equal keys keep the order of rglob)
SortedLists(S) ==
    { l \in [1..Cardinality(S) -> S] :
        /\ \A i, j \in DOMAIN l : i # j => l[i] # l[j]
        /\ \A i, j \in DOMAIN l : i < j => KeyLeq(l[i], l[j]) }

(***************************************************************************)
(* SpecLinks: build_wikilink_index, then replace_wikilinks_with_embeds     *)
(***************************************************************************)

MaxDocs == 2
MaxSegs == 2

\* 1-a/3 - Ab.md, 1-a/ab.md, 1-a/1 ab.md, 1-a/AB.md, 2-b/c&d.md
DocInputs ==
    { << <<"1","-","a">>, <<"3"," ","-"," ","A","b",".","m","d">> >>,
      << <<"1","-","a">>, <<"a","b",".","m","d">> >>,
      << <<"1","-","a">>, <<"1"," ","a","b",".","m","d">> >>,
      << <<"1","-","a">>, <<"A","B",".","m","d">> >>,
      << <<"2","-","b">>, <<"c","&","d",".","m","d">> >> }

\* pieces of page text: a bracket run that is no marker followed by plain
\* characters and a stray bracket, markers with and without #fragment and
\* |alias, a marker that resolves to nothing, one found only by its stripped form:
\*   [[ab#|c]]x[   [[ab]]   [[ C&D|ab]]   [[3 - Ab#f]]   [[zz#f|c]]   [[2 1 ab]]
TextSegments ==
    { <<"[","[","a","b","#","|","c","]","]","x","[">>,
      <<"[","[","a","b","]","]">>,
      <<"[","["," ","C","&","D","|","a","b","]","]">>,
      <<"[","[","3"," ","-"," ","A","b","#","f","]","]">>,
      <<"[","[","z","z","#","f","|","c","]","]">>,
      <<"[","[","2"," ","1"," ","a","b","]","]">> }
TextInputs == Concats(TextSegments, MaxSegs)

InitLinks ==
    /\ pc = "index"
    /\ \E S \in SUBSET DocInputs :
          /\ S # {} /\ Cardinality(S) <= MaxDocs
          /\ md_files \in SortedLists(S)
          /\ md5 = (CHOOSE f \in [{as_posix(q) : q \in S} -> Digests] : Injective(f))
    /\ title_map = [q \in {md_files[i] : i \in DOMAIN md_files} |-> strip_numeric_prefix(stem(q))]
    /\ embed_html_map = [q \in {md_files[i] : i \in DOMAIN md_files} |-> convert_markdown_to_html(stem(q))]
    /\ wikilink_index = << >>
    /\ loop_i = 0
    /\ current_md_path = None
    /\ md_text = << >>
    /\ md_text_embeds = << >>
    /\ MapperUnused
    /\ BuildUnused
    /\ TitleUnused

\* build_wikilink_index: the loop body for the next entry of md_paths
RegisterNext ==
    /\ pc = "index"
    /\ loop_i < Len(md_files)
    /\ wikilink_index' = RegisterDocument(wikilink_index, md_files[loop_i + 1], title_map)
    /\ loop_i' = loop_i + 1
    /\ UNCHANGED <<pc, md5, titleVars, mapperVars, md_files, title_map, embed_html_map,
                   current_md_path, md_text, md_text_embeds, buildVars>>

\* build_wikilink_index returns: the loop over md_paths has ended
IndexDone ==
    /\ pc = "index"
    /\ loop_i = Len(md_files)
    /\ pc' = "pages"
    /\ loop_i' = 0
    /\ UNCHANGED <<md5, titleVars, mapperVars, md_files, title_map, embed_html_map, wikilink_index,
                   current_md_path, md_text, md_text_embeds, buildVars>>

\* replace_wikilinks_with_embeds(md_text, current_md_path=md_path, ...) for one page
RewritePage(cur, text) ==
    /\ pc = "pages"
    /\ current_md_path' = cur
    /\ md_text' = text
    /\ md_text_embeds' = replace_wikilinks_with_embeds(text, cur)
    /\ pc' = "rewritten"
    /\ UNCHANGED <<md5, titleVars, mapperVars, md_files, title_map, embed_html_map, wikilink_index,
                   loop_i, buildVars>>

NextLinks ==
    \/ RegisterNext
    \/ IndexDone
    \/ \E i \in DOMAIN md_files, text \in TextInputs : RewritePage(md_files[i], text)

SpecLinks == InitLinks /\ [][NextLinks]_vars

(***************************************************************************)
(* Properties of the link index and the rewriter                           *)
(***************************************************************************)

\* the keys a Document is known by
DocKeys(p) ==
    { lower(stem(p)), lower(strip_numeric_prefix(stem(p))), lower(title_map[p]) }
HasKey(i, k) == k \in DocKeys(md_files[i])

\* C4: every key of the index maps to the earliest Document of the flat list
\* that has it as lowercased raw stem, ordinal-stripped stem or canonical title
\* (so no later Document overwrites a key), and once the loop has ended every
\* key of every Document is registered.
C4_EarliestWins ==
    /\ \A k \in DOMAIN wikilink_index :
          \E i \in 1..Len(md_files) :
             /\ HasKey(i, k)
             /\ wikilink_index[k] = md_files[i]
             /\ \A j \in 1..Len(md_files) : HasKey(j, k) => i <= j
    /\ pc \in {"pages", "rewritten"} =>
          \A i \in 1..Len(md_files) : DocKeys(md_files[i]) \subseteq DOMAIN wikilink_index

\* two Documents share a key and the index is complete
C4_Witness ==
    /\ pc = "pages"
    /\ \E i, j \in 1..Len(md_files) : \E k \in DOMAIN wikilink_index :
          i < j /\ HasKey(i, k) /\ HasKey(j, k) /\ wikilink_index[k] = md_files[i]

RECURSIVE ScanMarkers(_, _)
\* the markers of a text, as a left-to-right scan finds them
ScanMarkers(text, i) ==
    IF i > Len(text) THEN << >>
    ELSE LET m == MatchAt(text, i)
         IN  IF m.ok THEN << m >> \o ScanMarkers(text, m.end + 1)
             ELSE ScanMarkers(text, i + 1)

\* the reference token of a marker
Token(m) == strip(m.group1, WhiteSpace)
ExactKey(m) == lower(Token(m))
StrippedKey(m) == lower(strip_numeric_prefix(Token(m)))
Hit(m) == ExactKey(m) \in DOMAIN wikilink_index \/ StrippedKey(m) \in DOMAIN wikilink_index

ResolvedMarkers(text) == SelectSeq(ScanMarkers(text, 1), Hit)
UnresolvedMarkers(text) == SelectSeq(ScanMarkers(text, 1), LAMBDA m : ~Hit(m))
Embeds(out) == SelectSeq(out, IsEmbed)

\* C5: each marker resolves to the Document of its lowercased token when that
\* is a key, whatever the stripped form maps to; else to the Document of its
\* lowercased ordinal-stripped token; else to nothing.  The case of the token
\* does not matter.
C5_TwoStepResolution ==
    pc = "rewritten" =>
        LET rs == ResolvedMarkers(md_text)
            es == Embeds(md_text_embeds)
        IN  /\ Len(es) = Len(rs)
            /\ \A k \in 1..Len(rs) :
                  es[k].target_md =
                     IF ExactKey(rs[k]) \in DOMAIN wikilink_index
                     THEN wikilink_index[ExactKey(rs[k])]
                     ELSE wikilink_index[StrippedKey(rs[k])]
            /\ \A k \in 1..Len(rs) :
                  /\ Resolve(upper(Token(rs[k]))) = es[k].target_md
                  /\ Resolve(lower(Token(rs[k]))) = es[k].target_md

\* a token that is itself a key while its stripped form maps to another
\* Document, and a token found only through its ordinal-stripped form
C5_Witness ==
    /\ pc = "rewritten"
    /\ \E k \in 1..Len(ResolvedMarkers(md_text)) :
          ExactKey(ResolvedMarkers(md_text)[k]) \notin DOMAIN wikilink_index
    /\ \E k \in 1..Len(ResolvedMarkers(md_text)) :
          LET m == ResolvedMarkers(md_text)[k]
          IN  /\ ExactKey(m) \in DOMAIN wikilink_index
              /\ StrippedKey(m) \in DOMAIN wikilink_index
              /\ wikilink_index[ExactKey(m)] # wikilink_index[StrippedKey(m)]
              /\ Embeds(md_text_embeds)[k].target_md = wikilink_index[ExactKey(m)]

\* the positions of a text that lie inside one of the markers rs
Covered(text, rs) ==
    { j \in 1..Len(text) : \E k \in 1..Len(rs) : rs[k].start <= j /\ j <= rs[k].end }

\* where position j of the text, outside the replaced markers rs that cover
\* the positions cov, lands in the output
OutPos(j, rs, cov) ==
    j - Cardinality({ x \in cov : x < j }) + Cardinality({ k \in 1..Len(rs) : rs[k].end < j })

\* C6: the rewriter replaces resolved markers only: every character outside a
\* resolved marker, so every unresolved marker with its #fragment and |alias,
\* is in the output unchanged and in place, and nothing is put in for it.
C6_UnresolvedVerbatim ==
    pc = "rewritten" =>
        LET rs == ResolvedMarkers(md_text)
            cov == Covered(md_text, rs)
        IN  /\ Len(md_text_embeds) = Len(md_text) - Cardinality(cov) + Len(rs)
            /\ \A j \in (1..Len(md_text)) \ cov :
                  md_text_embeds[OutPos(j, rs, cov)] = Chr(md_text[j])
            /\ Len(Embeds(md_text_embeds)) = Len(rs)

\* an unresolved marker with fragment and alias next to a resolved one
C6_Witness ==
    /\ pc = "rewritten"
    /\ LET rs == ResolvedMarkers(md_text)
           us == UnresolvedMarkers(md_text)
           cov == Covered(md_text, rs)
       IN  /\ Len(rs) > 0
           /\ \E k \in 1..Len(us) :
                 /\ us[k].group2 # None
                 /\ \E j \in us[k].start..us[k].end : md_text[j] = "#"
                 /\ \A j \in us[k].start..us[k].end :
                       md_text_embeds[OutPos(j, rs, cov)] = Chr(md_text[j])

Under(p, root) == Len(p) >= Len(root) /\ SubSeq(p, 1, Len(root)) = root

\* Path.relative_to
relative_to(p, root) == Drop(p, Len(root))

\* Path.exists, Path.is_dir
exists(p) == p \in dirs \/ p \in DOMAIN fs
is_dir(p) == p \in dirs

\* d[key] = value of a dict, and Path.write_text / shutil.copy2 of a file
Store(d, key, value) == [k \in DOMAIN d \cup {key} |-> IF k = key THEN value ELSE d[k]]

\* Path.mkdir(parents=True, exist_ok=True)
mkdir_parents(ds, p) == ds \cup { SubSeq(p, 1, n) : n \in 1..Len(p) }

\* what shutil.rmtree(root) leaves of the files and of the directories
rmtree_files(f, root) == [q \in { q \in DOMAIN f : ~Under(q, root) } |-> f[q]]
rmtree_dirs(ds, root) == { q \in ds : ~Under(q, root) }

\* the files below input_root, relative to it
InputFiles ==
    { relative_to(q, input_root) : q \in { q \in DOMAIN fs : Under(q, input_root) /\ q # input_root } }

\* the directories below input_root, relative to it
InputDirs ==
    { relative_to(q, input_root) : q \in { q \in dirs : Under(q, input_root) /\ q # input_root } }

\* a source file: its text, and whether read_text(encoding="utf-8") succeeds
TextFile(text, readable) == [text |-> text, readable |-> readable]
\* any other file
BinaryFile(bytes) == [bytes |-> bytes]

Hidden(component) == startswith(component, <<".">>)
StartsWithDigit(component) == component # << >> /\ component[1] \in Digits

(***************************************************************************)
(* copy_assets                                                             *)
(***************************************************************************)

\* the files copy_assets copies, relative to input_root
CopiedAssets == { rel \in InputFiles : ~Hidden(name(rel)) /\ ~is_markdown_file(rel) }

copy_assets_files ==
    LET dsts == { output_root \o rel : rel \in CopiedAssets }
    IN  [q \in DOMAIN fs \cup dsts |->
            IF q \in dsts THEN fs[input_root \o relative_to(q, output_root)] ELSE fs[q]]

copy_assets_dirs ==
    dirs \cup UNION { mkdir_parents({}, parent(output_root \o rel)) : rel \in CopiedAssets }

(***************************************************************************)
(* build_nav_tree and render_nav_html                                      *)
(***************************************************************************)

\* the directories os.walk descends into: no hidden one, and below the root
\* only those whose name starts with a digit
WalkedDirs ==
    { d \in InputDirs : StartsWithDigit(d[1]) /\ \A i \in 1..Len(d) : ~Hidden(d[i]) }

\* the files that get a NavFile
NavFiles ==
    { rel \in InputFiles :
        /\ parent(rel) = << >> \/ parent(rel) \in WalkedDirs
        /\ ~Hidden(name(rel))
        /\ is_markdown_file(rel)
        /\ parent(rel) = << >> => lower(name(rel)) = IndexMd }

\* The NavDir tree: its nodes are the walked directories, each file hangs
\* under the node of its parent directory.
build_nav_tree ==
    [ subdirs |-> WalkedDirs,
      files   |-> [rel \in NavFiles |-> [title |-> stem(rel), out_html |-> relative_output_html(rel)]] ]

SearchHtml == << "s", "e", "a", "r", "c", "h", ".", "h", "t", "m", "l" >>

\* The fragment of render_nav_html, as the values it interpolates: one link per
\* NavFile and one <details> per NavDir (their nesting follows the paths).
render_nav_html(nav, current_out_dir, cur) ==
    [ search_href |-> rel_href(<< SearchHtml >>, current_out_dir),
      home_href   |-> rel_href(<< IndexHtml >>, current_out_dir),
      links       |-> { [ src_md |-> rel,
                          label  |-> html_escape(TitleOf(title_map, rel)),
                          active |-> rel = cur,
                          href   |-> rel_href(nav.files[rel].out_html, current_out_dir) ]
                        : rel \in DOMAIN nav.files },
      sections    |-> { [ path  |-> d,
                          label |-> html_escape(strip_numeric_prefix(name(d))),
                          open  |-> Under(cur, d) ]
                        : d \in nav.subdirs } ]

(***************************************************************************)
(* One page                                                                *)
(***************************************************************************)

\* the headings of a rewritten text: a line that starts with a run of # and a space
IsHeadingStart(items, i) ==
    /\ items[i] = Chr("#")
    /\ i = 1 \/ items[i - 1] = Chr("\n")
    /\ \E j \in (i + 1)..Len(items) :
          /\ items[j] = Chr(" ")
          /\ \A k \in i..(j - 1) : items[k] = Chr("#")

\* convert_markdown_with_toc: the converted content, and the toc extension's
\* list, which has one <a> per heading
convert_markdown_with_toc(items) ==
    [ content_html |-> convert_markdown_to_html(items),
      toc_html     |-> [ anchors |-> { i \in 1..Len(items) : IsHeadingStart(items, i) } ] ]

\* a faulty variant: one entry is enough
has_toc_one(toc_html) == Cardinality(toc_html.anchors) >= 1

\* has_toc = toc_html.count("<a ") >= 2
has_toc(toc_html) == Cardinality(toc_html.anchors) >= 2

\* main: args.title, at its default
site_title == << >>

\* render_page_html, as the values the template interpolates
render_page_html(page_title, nav_html, content_html, toc_html) ==
    [ title_text   |-> html_escape(page_title),
      nav_html     |-> nav_html,
      h1           |-> html_escape(page_title),
      content_html |-> content_html,
      rightbar     |-> toc_html ]

IsPage(content) == "nav_html" \in DOMAIN content

\* the body of the per-page loop of write_pages up to render_page_html, for
\* the Document cur
PageOf(cur) ==
    LET out_html_path == relative_output_html(cur)
        nav_html == render_nav_html(nav_root, parent(out_html_path), cur)
        embeds == replace_wikilinks_with_embeds(fs[input_root \o cur].text, cur)
        conv == convert_markdown_with_toc(embeds)
    IN  render_page_html(TitleOf(title_map, cur), nav_html, conv.content_html,
                         IF has_toc(conv.toc_html) THEN conv.toc_html ELSE None)

(***************************************************************************)
(* write_search_assets                                                     *)
(***************************************************************************)

Assets == << "a", "s", "s", "e", "t", "s" >>
SearchIndexJson == << "s", "e", "a", "r", "c", "h", "_", "i", "n", "d", "e", "x", ".", "j", "s", "o", "n" >>

\* re.sub(r"\[\[(.*?)\]\]", r"\1", plain): from the leftmost "[[", the shortest
\* run without a newline up to "]]" replaces the marker; the scan goes on after it
ClosesAt(s, j) == j + 1 <= Len(s) /\ s[j] = "]" /\ s[j + 1] = "]"
OpensAt(s, i) == i + 1 <= Len(s) /\ s[i] = "[" /\ s[i + 1] = "["
MarkerEnds(s, i) ==
    { j \in (i + 2)..Len(s) : ClosesAt(s, j) /\ \A k \in (i + 2)..(j - 1) : s[k] # "\n" }

RECURSIVE UnwrapFrom(_, _)
UnwrapFrom(s, i) ==
    IF i > Len(s) THEN << >>
    ELSE IF OpensAt(s, i) /\ MarkerEnds(s, i) # {}
         THEN LET j == CHOOSE j \in MarkerEnds(s, i) : \A k \in MarkerEnds(s, i) : j <= k
              IN  SubSeq(s, i + 2, j - 1) \o UnwrapFrom(s, j + 2)
         ELSE << s[i] >> \o UnwrapFrom(s, i + 1)

\* re.sub(r"[#*_>\-]+", " ", plain) and re.sub(r"\s+", " ", plain): every maximal
\* run of characters of the class becomes one space
MarkupChars == {"#", "*", "_", ">", "-"}

RECURSIVE SquashFrom(_, _, _)
SquashFrom(s, i, cls) ==
    IF i > Len(s) THEN << >>
    ELSE IF s[i] \in cls
         THEN (IF i > 1 /\ s[i - 1] \in cls THEN << >> ELSE << " " >>) \o SquashFrom(s, i + 1, cls)
         ELSE << s[i] >> \o SquashFrom(s, i + 1, cls)

\* the chain of re.sub calls that makes the preview text; the texts built here
\* hold no backquote and no parenthesis, so the substitutions of code spans and
\* of [label](url) links leave them as they are
plain_text(text) ==
    strip(SquashFrom(SquashFrom(UnwrapFrom(text, 1), 1, MarkupChars), 1, WhiteSpace), WhiteSpace)

\* json.dumps(records): one record per item of title_map, in insertion order
search_index_json ==
  [ records |->
    [ i \in 1..Len(md_files) |->
        LET md_path == md_files[i]
            src == input_root \o md_path
        IN  [ title |-> title_map[md_path],
              path  |-> <<"/">> \o Join(relative_output_html(md_path), <<"/">>),
              text  |-> plain_text(IF fs[src].readable THEN fs[src].text ELSE << >>) ] ] ]

\* the fixed search page
search_html == BinaryFile("search_html")

(***************************************************************************)
(* SpecBuild: main()                                                       *)
(***************************************************************************)

MaxFiles == 3

SourceDir == << "s", "r", "c" >>
SiteDir == << "s", "i", "t", "e" >>

AbMd == << Section, <<"a","b",".","m","d">> >>
ThreeAbMd == << Section, <<"3"," ","-"," ","A","b",".","m","d">> >>
PicPng == << Section, <<"p","i","c",".","p","n","g">> >>
NotesMd == << <<"n","o","t","e","s",".","m","d">> >>
UnnumberedMd == << <<"x">>, <<"a","b",".","m","d">> >>
OldHtml == << "o", "l", "d", ".", "h", "t", "m", "l" >>
CMarkdown == << Section, <<"c",".","m","a","r","k","d","o","w","n">> >>
HiddenDirMd == << Section, <<".","t">>, <<"h",".","m","d">> >>
HiddenDirPng == << Section, <<".","t">>, <<"p","i","c",".","p","n","g">> >>
SubMd == << Section, <<"s","u","b">>, <<"e",".","m","d">> >>
OtherSectionMd == << <<"2","-","b">>, <<"f",".","m","d">> >>
AbHtml == << Section, <<"a","b",".","h","t","m","l">> >>

\* The files an input tree is made of, with their content:
\*   index.md  Index.md  notes.md  x/ab.md  1-a/ab.md  1-a/3 - Ab.md
\*   1-a/c.markdown  1-a/.t/h.md  1-a/sub/e.md  2-b/f.md
\*   1-a/pic.png  1-a/.t/pic.png  1-a/ab.html
TreeText ==
    ( << IndexMd >> :> <<"[","[","a","b","]","]">> ) @@
    ( << <<"I">> \o Tail(IndexMd) >> :> <<"x">> ) @@
    ( AbMd :> <<"[","[","A","B","]","]">> ) @@
    ( ThreeAbMd :> <<"[","[","i","n","d","e","x","|","y","]","]">> ) @@
    ( NotesMd :> <<"x">> ) @@
    ( UnnumberedMd :> <<"x">> ) @@
    ( CMarkdown :> <<"x">> ) @@
    ( HiddenDirMd :> <<"x">> ) @@
    ( SubMd :> <<"#"," ","a","\n","#","#"," ","b">> ) @@
    ( OtherSectionMd :> <<"#"," ","a","\n","#","b">> )
TreeFiles == DOMAIN TreeText \cup { PicPng, HiddenDirPng, AbHtml }

\* the filesystem below root that holds the files T, those of U unreadable
TreeOf(root, T, U) ==
    [ q \in { root \o rel : rel \in T } |->
        LET rel == relative_to(q, root)
        IN  IF rel \in DOMAIN TreeText THEN TextFile(TreeText[rel], rel \notin U)
            ELSE BinaryFile(as_posix(rel)) ]
TreeDirsOf(root, T) == UNION { mkdir_parents({}, parent(root \o rel)) : rel \in T }

\* the state when main() starts with the resolved roots src_root and dst_root
InitRoots(src_root, dst_root) ==
    /\ pc = "main"
    /\ input_root = src_root
    /\ output_root = dst_root
    /\ \E kind \in {"dir", "file", "missing"}, stale \in BOOLEAN, T \in SUBSET TreeFiles :
          /\ Cardinality(T) <= MaxFiles
          /\ kind # "dir" => T = {}
          /\ \E U \in SUBSET { rel \in T : is_markdown_file(rel) } :
                /\ Cardinality(U) <= 1
                /\ fs = TreeOf(input_root, T, U)
                        @@ (IF kind = "file" THEN input_root :> BinaryFile("file") ELSE << >>)
                        @@ (IF stale
                            THEN ((output_root \o << OldHtml >>) :> BinaryFile("stale"))
                                 @@ ((output_root \o << SearchHtml >>) :> search_html)
                            ELSE << >>)
          /\ dirs = (IF kind = "dir"
                     THEN mkdir_parents({}, input_root) \cup TreeDirsOf(input_root, T)
                     ELSE {})
                    \cup (IF stale THEN mkdir_parents({}, output_root) ELSE {})
    /\ fs_start = fs
    /\ dirs_start = dirs
    /\ nav_root = << >>
    /\ page_order = << >>
    \* none of these file names is changed by the mapper, so no digest is taken
    /\ md5 = << >>
    /\ LinkUnused
    /\ MapperUnused
    /\ TitleUnused

InitBuild == InitRoots(<< SourceDir >>, << SiteDir >>)

\* a faulty variant: only input_root.exists() is tested
InputRootExists == exists(input_root)

\* not (not input_root.exists() or not input_root.is_dir())
InputRootIsDirectory == exists(input_root) /\ is_dir(input_root)

\* main: raise SystemExit unless the input root is a directory
CheckInputRoot ==
    /\ pc = "main"
    /\ pc' = IF InputRootIsDirectory THEN "prepare" ELSE "exit_error"
    /\ UNCHANGED <<md5, titleVars, mapperVars, linkVars, buildVars>>

\* a faulty variant: an existing output directory is kept as it is
KeepOutputRoot ==
    /\ pc = "prepare"
    /\ pc' = "mkdir"
    /\ UNCHANGED <<md5, titleVars, mapperVars, linkVars, buildVars>>

\* main: if output_root.exists(): shutil.rmtree(output_root, ...)
RemoveOutputRoot ==
    /\ pc = "prepare"
    /\ IF exists(output_root)
       THEN /\ fs' = rmtree_files(fs, output_root)
            /\ dirs' = rmtree_dirs(dirs, output_root)
       ELSE UNCHANGED <<fs, dirs>>
    /\ pc' = "mkdir"
    /\ UNCHANGED <<md5, titleVars, mapperVars, linkVars, fs_start, dirs_start, input_root, output_root,
                   nav_root, page_order>>

\* main: output_root.mkdir(parents=True, exist_ok=True)
MakeOutputRoot ==
    /\ pc = "mkdir"
    /\ dirs' = mkdir_parents(dirs, output_root)
    /\ pc' = "copy_assets"
    /\ UNCHANGED <<md5, titleVars, mapperVars, linkVars, fs, fs_start, dirs_start, input_root, output_root,
                   nav_root, page_order>>

\* main: copy_assets(input_root, output_root)
CopyAssets ==
    /\ pc = "copy_assets"
    /\ fs' = copy_assets_files
    /\ dirs' = copy_assets_dirs
    /\ pc' = "write_pages"
    /\ UNCHANGED <<md5, titleVars, mapperVars, linkVars, fs_start, dirs_start, input_root, output_root,
                   nav_root, page_order>>

\* write_pages: nav_root = build_nav_tree(input_root, output_root)
BuildNavTree ==
    /\ pc = "write_pages"
    /\ nav_root' = build_nav_tree
    /\ pc' = "enumerate"
    /\ UNCHANGED <<md5, titleVars, mapperVars, linkVars, fs, dirs, fs_start, dirs_start, input_root,
                   output_root, page_order>>

\* [p for p in input_root.rglob("*.md") if _is_included_md(p)]
IncludedDocs == { rel \in InputFiles : glob_star_md(rel) /\ is_included_md(rel) }

\* the orders in which a loop can take a list of n entries
Orders(n) == { o \in [1..n -> 1..n] : \A i, j \in 1..n : i # j => o[i] # o[j] }
ListOrder(n) == [i \in 1..n |-> i]

\* write_pages: md_files, its sort, and title_map; the per-page loop will take
\* md_files in the order page_order
Enumerate(any_order) ==
    /\ pc = "enumerate"
    /\ \E l \in SortedLists(IncludedDocs) :
          /\ md_files' = l
          /\ title_map' = [q \in IncludedDocs |-> strip_numeric_prefix(stem(q))]
          /\ page_order' \in (IF any_order THEN Orders(Len(l)) ELSE {ListOrder(Len(l))})
    /\ embed_html_map' = << >>
    /\ loop_i' = 0
    /\ pc' = "embed"
    /\ UNCHANGED <<md5, titleVars, mapperVars, wikilink_index, current_md_path, md_text, md_text_embeds,
                   fs, dirs, fs_start, dirs_start, input_root, output_root, nav_root>>

\* for md_path in md_files: the loop takes the list in its order
EnumerateDocuments == Enumerate(FALSE)

RECURSIVE ExpandMarkersFrom(_, _)
\* the text from position i on, each marker that names a listed Document by its
\* stem replaced by that Document's text
ExpandMarkersFrom(text, i) ==
    IF i > Len(text) THEN << >>
    ELSE LET m == MatchAt(text, i)
             named == IF m.ok
                      THEN { k \in 1..Len(md_files) :
                               /\ lower(stem(md_files[k])) = lower(strip(m.group1, WhiteSpace))
                               /\ fs[input_root \o md_files[k]].readable }
                      ELSE {}
         IN  IF named # {}
             THEN fs[input_root \o md_files[CHOOSE k \in named : \A l \in named : k <= l]].text
                     \o ExpandMarkersFrom(text, m.end + 1)
             ELSE << text[i] >> \o ExpandMarkersFrom(text, i + 1)

\* a faulty variant: the embed body is made from the text with its own markers
\* expanded, so an embed holds the content of the Documents its target names
PrecomputeEmbedExpanded ==
    /\ pc = "embed"
    /\ loop_i < Len(md_files)
    /\ LET md_path == md_files[loop_i + 1]
           src == input_root \o md_path
           text == IF fs[src].readable THEN ExpandMarkersFrom(fs[src].text, 1) ELSE << >>
       IN  embed_html_map' = Store(embed_html_map, md_path, convert_markdown_to_html(text))
    /\ loop_i' = loop_i + 1
    /\ UNCHANGED <<pc, md5, titleVars, mapperVars, md_files, title_map, wikilink_index, current_md_path,
                   md_text, md_text_embeds, buildVars>>

\* write_pages: one iteration of the loop that fills embed_html_map
PrecomputeEmbed ==
    /\ pc = "embed"
    /\ loop_i < Len(md_files)
    /\ LET md_path == md_files[loop_i + 1]
           src == input_root \o md_path
           text == IF fs[src].readable THEN fs[src].text ELSE << >>
       IN  embed_html_map' = Store(embed_html_map, md_path, convert_markdown_to_html(text))
    /\ loop_i' = loop_i + 1
    /\ UNCHANGED <<pc, md5, titleVars, mapperVars, md_files, title_map, wikilink_index, current_md_path,
                   md_text, md_text_embeds, buildVars>>

\* a faulty variant: the per-page loop starts before the link index is built
EmbedsDoneSkipIndex ==
    /\ pc = "embed"
    /\ loop_i = Len(md_files)
    /\ pc' = "pages"
    /\ loop_i' = 0
    /\ UNCHANGED <<md5, titleVars, mapperVars, md_files, title_map, embed_html_map, wikilink_index,
                   current_md_path, md_text, md_text_embeds, buildVars>>

\* write_pages: the embed loop has ended, build_wikilink_index is called
EmbedsDone ==
    /\ pc = "embed"
    /\ loop_i = Len(md_files)
    /\ pc' = "index"
    /\ loop_i' = 0
    /\ UNCHANGED <<md5, titleVars, mapperVars, md_files, title_map, embed_html_map, wikilink_index,
                   current_md_path, md_text, md_text_embeds, buildVars>>

\* a faulty variant: the read of the page's text is guarded like the other two
\* reads, so a Document that cannot be read gets a page and the build goes on
AssemblePageGuarded ==
    /\ pc = "pages"
    /\ loop_i < Len(md_files)
    /\ LET md_path == md_files[page_order[loop_i + 1]]
           out_html_path == output_root \o relative_output_html(md_path)
       IN  /\ dirs' = mkdir_parents(dirs, parent(out_html_path))
           /\ current_md_path' = md_path
           /\ md_text' = IF fs[input_root \o md_path].readable
                         THEN fs[input_root \o md_path].text ELSE << >>
           /\ md_text_embeds' = replace_wikilinks_with_embeds(md_text', md_path)
           /\ fs' = Store(fs, out_html_path, PageOf(md_path))
           /\ loop_i' = loop_i + 1
    /\ UNCHANGED <<pc, md5, titleVars, mapperVars, md_files, title_map, embed_html_map, wikilink_index,
                   fs_start, dirs_start, input_root, output_root, nav_root, page_order>>

\* write_pages: one iteration of the per-page loop.  The read of the page's
\* text is not guarded: if it fails the exception ends the build.
AssemblePage ==
    /\ pc = "pages"
    /\ loop_i < Len(md_files)
    /\ LET md_path == md_files[page_order[loop_i + 1]]
           out_html_path == output_root \o relative_output_html(md_path)
       IN  /\ dirs' = mkdir_parents(dirs, parent(out_html_path))
           /\ IF fs[input_root \o md_path].readable
              THEN /\ current_md_path' = md_path
                   /\ md_text' = fs[input_root \o md_path].text
                   /\ md_text_embeds' = replace_wikilinks_with_embeds(md_text', md_path)
                   /\ fs' = Store(fs, out_html_path, PageOf(md_path))
                   /\ loop_i' = loop_i + 1
                   /\ pc' = "pages"
              ELSE /\ pc' = "crashed"
                   /\ UNCHANGED <<current_md_path, md_text, md_text_embeds, fs, loop_i>>
    /\ UNCHANGED <<md5, titleVars, mapperVars, md_files, title_map, embed_html_map, wikilink_index,
                   fs_start, dirs_start, input_root, output_root, nav_root, page_order>>

\* write_pages: the per-page loop has ended
PagesDone ==
    /\ pc = "pages"
    /\ loop_i = Len(md_files)
    /\ pc' = "search"
    /\ UNCHANGED <<md5, titleVars, mapperVars, linkVars, buildVars>>

\* a faulty variant: the read of the excerpt is not guarded, so a Document that
\* cannot be read ends the run before anything is written
WriteSearchAssetsUnguarded ==
    /\ pc = "search"
    /\ IF \E i \in 1..Len(md_files) : ~fs[input_root \o md_files[i]].readable
       THEN /\ pc' = "crashed"
            /\ UNCHANGED <<fs, dirs>>
       ELSE /\ dirs' = mkdir_parents(dirs, output_root \o << Assets >>)
            /\ fs' = Store(Store(fs, output_root \o << Assets, SearchIndexJson >>, search_index_json),
                           output_root \o << SearchHtml >>, search_html)
            /\ pc' = "done"
    /\ UNCHANGED <<md5, titleVars, mapperVars, linkVars, fs_start, dirs_start, input_root, output_root,
                   nav_root, page_order>>

\* write_pages: write_search_assets(input_root, output_root, title_map)
WriteSearchAssets ==
    /\ pc = "search"
    /\ dirs' = mkdir_parents(dirs, output_root \o << Assets >>)
    /\ fs' = Store(Store(fs, output_root \o << Assets, SearchIndexJson >>, search_index_json),
                   output_root \o << SearchHtml >>, search_html)
    /\ pc' = "done"
    /\ UNCHANGED <<md5, titleVars, mapperVars, linkVars, fs_start, dirs_start, input_root, output_root,
                   nav_root, page_order>>

NextBuild ==
    \/ CheckInputRoot
    \/ RemoveOutputRoot
    \/ MakeOutputRoot
    \/ CopyAssets
    \/ BuildNavTree
    \/ EnumerateDocuments
    \/ PrecomputeEmbed
    \/ EmbedsDone
    \/ RegisterNext
    \/ IndexDone
    \/ AssemblePage
    \/ PagesDone
    \/ WriteSearchAssets

SpecBuild == InitBuild /\ [][NextBuild]_vars

(***************************************************************************)
(* The barrier of write_pages                                              *)
(***************************************************************************)

ListedDocs == { md_files[i] : i \in 1..Len(md_files) }

\* the list holds every included Document, and the title map, the embed map
\* and the link index have their entries for each of them
BarrierPassed ==
    /\ pc \notin {"main", "exit_error", "prepare", "mkdir", "copy_assets", "write_pages", "enumerate"}
    /\ ListedDocs = IncludedDocs
    /\ DOMAIN title_map = IncludedDocs
    /\ DOMAIN embed_html_map = IncludedDocs
    /\ \A q \in IncludedDocs : DocKeys(q) \subseteq DOMAIN wikilink_index

\* a step that rewrites a page's text, or writes a page file
PageStep ==
    \/ md_text_embeds' # md_text_embeds
    \/ current_md_path' # current_md_path
    \/ \E o \in DOMAIN fs' : IsPage(fs'[o]) /\ (o \notin DOMAIN fs \/ fs[o] # fs'[o])

\* C8: a step that rewrites, converts or writes a page is taken only when the
\* Document list is fully enumerated and the link index and the embed map hold
\* their entries for all Documents; such a step, and every step from the start
\* of the per-page loop on, leaves the list, the link index, the title map and
\* the embed map as they are.
C8_Barrier ==
    [][ /\ PageStep => BarrierPassed
        /\ (PageStep \/ pc \in {"pages", "search", "done", "crashed"}) =>
              UNCHANGED <<md_files, wikilink_index, title_map, embed_html_map>> ]_vars

\* the second page of a build has been written, from an index with entries
C8_Witness ==
    /\ pc = "pages"
    /\ loop_i = 2
    /\ Len(md_files) >= 2
    /\ wikilink_index # << >>
    /\ Cardinality({ o \in DOMAIN fs : IsPage(fs[o]) }) = 2
    /\ Embeds(md_text_embeds) # << >>

(***************************************************************************)
(* The input check of main                                                 *)
(***************************************************************************)

\* C10: when the input root is missing or is no directory, the build does
\* nothing but end with the fatal error: the filesystem stays as it was (an
\* existing output directory is still there, none is created, no file is written).
C10_AbortBeforeWrite ==
    input_root \notin dirs_start =>
        /\ pc \in {"main", "exit_error"}
        /\ fs = fs_start
        /\ dirs = dirs_start

\* the build has ended with the error, the input root being a file and the
\* output directory of an earlier run still in place
C10_Witness ==
    /\ pc = "exit_error"
    /\ input_root \in DOMAIN fs
    /\ output_root \in dirs
    /\ (output_root \o << OldHtml >>) \in DOMAIN fs

(***************************************************************************)
(* SpecPerm: main() with the per-page loop taking md_files in any order    *)
(***************************************************************************)

\* for md_path in md_files, in any of the orders of the list
EnumerateDocumentsInAnyOrder == Enumerate(TRUE)

NextPerm ==
    \/ CheckInputRoot
    \/ RemoveOutputRoot
    \/ MakeOutputRoot
    \/ CopyAssets
    \/ BuildNavTree
    \/ EnumerateDocumentsInAnyOrder
    \/ PrecomputeEmbed
    \/ EmbedsDone
    \/ RegisterNext
    \/ IndexDone
    \/ AssemblePage
    \/ PagesDone
    \/ WriteSearchAssets

SpecPerm == InitBuild /\ [][NextPerm]_vars

\* the output file of a Document
OutputOf(q) == output_root \o relative_output_html(q)

\* the last Document of the list, in list order, that is written to the file o
LastInListOrder(o) ==
    md_files[CHOOSE i \in 1..Len(md_files) :
                /\ OutputOf(md_files[i]) = o
                /\ \A j \in 1..Len(md_files) : OutputOf(md_files[j]) = o => j <= i]

\* C9: when the per-page loop has ended, whatever order it took, the page
\* files are those the loop leaves when it takes the list in its order: one
\* per output path, holding the page of the last Document of the list that
\* maps to it.
C9_OrderIndependent ==
    pc \in {"search", "done"} =>
        /\ { o \in DOMAIN fs : IsPage(fs[o]) } = { OutputOf(q) : q \in ListedDocs }
        /\ \A q \in ListedDocs : fs[OutputOf(q)] = PageOf(LastInListOrder(OutputOf(q)))

(***************************************************************************)
(* The Documents that get a page                                           *)
(***************************************************************************)

\* the Documents C11 names: a text document (.md or .markdown, any case) with
\* no hidden component that is the root's index or lies under a numbered
\* top-level folder
ClaimedDocs ==
    { rel \in InputFiles :
        /\ is_markdown_file(rel)
        /\ \A i \in 1..Len(rel) : ~Hidden(rel[i])
        /\ IF parent(rel) = << >> THEN lower(stem(rel)) = Index
           ELSE StartsWithDigit(rel[1]) }

\* the Documents whose page file is in the output
PagedDocs == { q \in ListedDocs : OutputOf(q) \in DOMAIN fs /\ IsPage(fs[OutputOf(q)]) }

\* C11: when the build has ended, the Documents whose page was written are
\* exactly the root index (any case) and the .md/.markdown documents (any
\* case) under a numbered top-level folder that have no hidden path component.
C11_PageSet ==
    pc = "done" => (ListedDocs = ClaimedDocs /\ PagedDocs = ClaimedDocs)

(***************************************************************************)
(* The order of the flat list                                              *)
(***************************************************************************)

\* the listed Documents at the root of the input tree: the root index documents
RootIndexDocs == { q \in ListedDocs : parent(q) = << >> }

\* the case-insensitive path order
PathOrdered(p, q) == ~StrLess(lower(as_posix(q)), lower(as_posix(p)))

\* C12: the flat list starts with the root index document when one is
\* included, whatever the case of its name, and the Documents after it (all
\* of them when there is none) are in case-insensitive path order.
C12_RootIndexFirst ==
    LET first == IF RootIndexDocs # {} THEN 2 ELSE 1
    IN  /\ RootIndexDocs # {} => md_files[1] \in RootIndexDocs
        /\ \A i, j \in first..Len(md_files) : i < j => PathOrdered(md_files[i], md_files[j])

(***************************************************************************)
(* SpecTitle: strip_numeric_prefix applied to a stem, and to its result    *)
(***************************************************************************)

MaxTitleAtoms == 3

\* pieces of a stem:  3  01  "1 "  "2 "  "1 - "  "2 - "  " - "  " "  -  _  .  foo
TitleAtoms ==
    { <<"3">>, <<"0","1">>, <<"1"," ">>, <<"2"," ">>,
      <<"1"," ","-"," ">>, <<"2"," ","-"," ">>, <<" ","-"," ">>,
      <<" ">>, <<"-">>, <<"_">>, <<".">>, <<"f","o","o">> }
TitleInputs == Concats(TitleAtoms, MaxTitleAtoms)

InitTitle ==
    /\ pc = "strip"
    /\ title_stem \in TitleInputs
    /\ stripped_title = << >>
    /\ stripped_again = << >>
    /\ md5 = << >>
    /\ LinkUnused
    /\ MapperUnused
    /\ BuildUnused

\* title = strip_numeric_prefix(stem)
CallStripNumericPrefix ==
    /\ pc = "strip"
    /\ stripped_title' = strip_numeric_prefix(title_stem)
    /\ pc' = "stripped_title"
    /\ UNCHANGED <<md5, title_stem, stripped_again, mapperVars, linkVars, buildVars>>

\* strip_numeric_prefix(title), as _repl applies it to a token that is a title
CallStripAgain ==
    /\ pc = "stripped_title"
    /\ stripped_again' = strip_numeric_prefix(stripped_title)
    /\ pc' = "stripped_again"
    /\ UNCHANGED <<md5, title_stem, stripped_title, mapperVars, linkVars, buildVars>>

NextTitle == CallStripNumericPrefix \/ CallStripAgain

SpecTitle == InitTitle /\ [][NextTitle]_vars

\* C13: applying strip_numeric_prefix to its own result changes nothing.
C13_Idempotent ==
    pc = "stripped_again" => stripped_again = stripped_title

\* s is whitespace, a digit, characters of [\d._-], whitespace, one of - _ .
\* or space, whitespace, and nothing else: the whole of s is an ordinal prefix
WholeOrdinal(s) ==
    \E a, b, c \in 0..Len(s) :
        /\ a < b /\ b <= c /\ c < Len(s)
        /\ \A i \in 1..a : s[i] \in WhiteSpace
        /\ s[a + 1] \in Digits
        /\ \A i \in (a + 2)..b : s[i] \in OrdinalChars
        /\ \A i \in (b + 1)..c : s[i] \in WhiteSpace
        /\ s[c + 1] \in SepChars
        /\ \A i \in (c + 2)..Len(s) : s[i] \in WhiteSpace

AllWhiteSpace(s) == \A i \in 1..Len(s) : s[i] \in WhiteSpace

\* C14: the title of a non-empty stem is non-empty, and a stem that is
\* nothing but an ordinal prefix (or nothing but spaces) is its own title.
C14_NeverEmpty ==
    (pc \in {"stripped_title", "stripped_again"} /\ title_stem # << >>) =>
        /\ stripped_title # << >>
        /\ (WholeOrdinal(title_stem) \/ AllWhiteSpace(title_stem)) => stripped_title = title_stem

\* the stem '01 - ' went through the resolver and came back unchanged
C14_Witness ==
    /\ pc = "stripped_title"
    /\ title_stem = <<"0","1"," ","-"," ">>
    /\ WholeOrdinal(title_stem)
    /\ stripped_title = title_stem

(***************************************************************************)
(* The navigation fragment of a written page                               *)
(***************************************************************************)

\* the directories, relative to input_root, that the Document rel lies in
AncestorDirs(rel) == { SubSeq(rel, 1, n) : n \in 1..(Len(rel) - 1) }

\* the page the per-page loop has just written
LastPage == fs[OutputOf(current_md_path)]

\* C15: in the fragment of a written page a directory's section is open
\* exactly when the page's source path lies in that directory's subtree: the
\* directory holding the page and each of its ancestors have an open section,
\* every other section is closed.
C15_OpenSections ==
    current_md_path # None =>
        LET sections == LastPage.nav_html.sections
        IN  /\ \A sec \in sections : sec.open <=> sec.path \in AncestorDirs(current_md_path)
            /\ \A d \in AncestorDirs(current_md_path) :
                  \E sec \in sections : sec.path = d /\ sec.open

\* C16: the fragment of a written page has a link for the page's own
\* Document, that link is marked active, and no other link is.
C16_OneActiveLink ==
    current_md_path # None =>
        LET links == LastPage.nav_html.links
        IN  /\ \E l \in links : l.src_md = current_md_path /\ l.active
            /\ \A l \in links : l.active => l.src_md = current_md_path

(***************************************************************************)
(* The contents panel of a written page                                    *)
(***************************************************************************)

\* the headings of the text that was converted for the page just written
HeadingsOf(items) == { i \in 1..Len(items) : IsHeadingStart(items, i) }

HasPanel(page) == page.rightbar # None

\* C17: a written page has the right-hand contents panel exactly when the
\* table of contents of its converted text has two entries or more; the
\* panel then holds that table.
C17_TocPanel ==
    current_md_path # None =>
        /\ HasPanel(LastPage) <=> Cardinality(HeadingsOf(md_text_embeds)) >= 2
        /\ HasPanel(LastPage) => LastPage.rightbar.anchors = HeadingsOf(md_text_embeds)

\* a page with one heading has just been written without the panel, after a
\* page with two headings that has it
C17_Witness ==
    /\ current_md_path = OtherSectionMd
    /\ Cardinality(HeadingsOf(md_text_embeds)) = 1
    /\ ~HasPanel(LastPage)
    /\ OutputOf(SubMd) \in DOMAIN fs
    /\ HasPanel(fs[OutputOf(SubMd)])
    /\ Cardinality(fs[OutputOf(SubMd)].rightbar.anchors) = 2

(***************************************************************************)
(* The placeholder of the Path Mapper                                      *)
(***************************************************************************)

\* a stem of which sanitising leaves nothing: only spaces, dots and control
\* characters
SanitizesToEmpty(s) ==
    /\ s # << >>
    /\ \A i \in 1..Len(s) : s[i] \in {" ", "."} \cup ControlChars

\* C18: a stem that is empty after sanitising comes back as the placeholder
\* 'untitled' followed by '-' and the six hex digits of the path's hash.
C18_UntitledPlaceholder ==
    (pc = "sanitized" /\ SanitizesToEmpty(arg_stem)) =>
        ret_stem = untitled \o <<"-">> \o md5[arg_rel]

(***************************************************************************)
(* The copied assets                                                       *)
(***************************************************************************)

HasHiddenComponent(rel) == \E i \in 1..Len(rel) : Hidden(rel[i])

\* C19: when the build has ended, every file of the input tree that is not
\* hidden and is no text document is in the output directory at the same
\* relative path with the same bytes (no later step has overwritten it).
C19_AssetsKept ==
    pc = "done" =>
        \A rel \in InputFiles :
            (~HasHiddenComponent(rel) /\ ~is_markdown_file(rel)) =>
                /\ (output_root \o rel) \in DOMAIN fs
                /\ fs[output_root \o rel] = fs[input_root \o rel]

\* C20: no file of the input tree whose name, or one of whose directories,
\* starts with a dot is ever in the output directory.
C20_HiddenNotCopied ==
    \A rel \in InputFiles : HasHiddenComponent(rel) => (output_root \o rel) \notin DOMAIN fs

(***************************************************************************)
(* main() with roots that overlap                                          *)
(***************************************************************************)

\* the resolved --input and --output arguments: disjoint, the same directory,
\* and an output directory that contains the input directory
RootInputs ==
    { << << SourceDir >>, << SiteDir >> >>,
      << << SourceDir >>, << SourceDir >> >>,
      << << SiteDir, SourceDir >>, << SiteDir >> >> }

InitOverlap == \E r \in RootInputs : InitRoots(r[1], r[2])

SpecRoots == InitOverlap /\ [][NextBuild]_vars

\* the files below root (root included) with their content, and the directories
TreeUnder(f, ds, root) ==
    [files |-> [q \in { q \in DOMAIN f : Under(q, root) } |-> f[q]],
     folders |-> { q \in ds : Under(q, root) }]

\* C21: at every point of a build the files and directories under the input
\* root are the ones that were there when the build started, with the same
\* content: nothing under the input root is deleted, created or modified,
\* whatever the input and output directories are.
C21_InputReadOnly ==
    TreeUnder(fs, dirs, input_root) = TreeUnder(fs_start, dirs_start, input_root)

(***************************************************************************)
(* SpecSearch: write_search_assets(input_root, output_root, title_map)     *)
(***************************************************************************)

\* the call of write_search_assets: the output directory exists, title_map holds
\* the included Documents of the input tree in list order, and any of the
\* Documents may be unreadable when its excerpt is made
InitSearch ==
    /\ pc = "search"
    /\ input_root = << SourceDir >>
    /\ output_root = << SiteDir >>
    /\ \E T \in SUBSET TreeFiles :
          /\ Cardinality(T) <= MaxFiles
          /\ \E U \in SUBSET { rel \in T : is_markdown_file(rel) } :
                fs = TreeOf(input_root, T, U)
          /\ dirs = {input_root, output_root} \cup TreeDirsOf(input_root, T)
    /\ fs_start = fs
    /\ dirs_start = dirs
    /\ md_files \in SortedLists(IncludedDocs)
    /\ title_map = [q \in IncludedDocs |-> strip_numeric_prefix(stem(q))]
    /\ embed_html_map = << >>
    /\ wikilink_index = << >>
    /\ loop_i = Len(md_files)
    /\ current_md_path = << >>
    /\ md_text = << >>
    /\ md_text_embeds = << >>
    /\ nav_root = << >>
    /\ page_order = ListOrder(Len(md_files))
    /\ md5 = << >>
    /\ MapperUnused
    /\ TitleUnused

NextSearch == WriteSearchAssets

SpecSearch == InitSearch /\ [][NextSearch]_vars

SearchIndexFile == output_root \o << Assets, SearchIndexJson >>
Unreadable(q) == ~fs[input_root \o q].readable

\* C22: write_search_assets never fails on a Document it cannot read, and the
\* index it writes has exactly one record for each included Document, with the
\* Document's title, the path of its page from the site root, and its excerpt:
\* the empty string when the Document cannot be read, the stripped text of the
\* Document otherwise, whatever the other Documents are.
C22_SearchRecords ==
    /\ pc # "crashed"
    /\ pc = "done" =>
          /\ SearchIndexFile \in DOMAIN fs
          /\ LET records == fs[SearchIndexFile].records
             IN  /\ Len(records) = Cardinality(IncludedDocs)
                 /\ \A q \in IncludedDocs :
                       \E i \in 1..Len(records) :
                          /\ md_files[i] = q
                          /\ records[i].title = strip_numeric_prefix(stem(q))
                          /\ records[i].path =
                                <<"/">> \o Join(relative_to(OutputOf(q), output_root), <<"/">>)
                          /\ Unreadable(q) => records[i].text = << >>
                          /\ ~Unreadable(q) => records[i].text = plain_text(fs[input_root \o q].text)

\* an index written for a Document that cannot be read, next to a readable one
\* whose excerpt is not empty
C22_Witness ==
    /\ pc = "done"
    /\ \E q, r \in IncludedDocs :
          /\ Unreadable(q)
          /\ fs[input_root \o q].text # << >>
          /\ ~Unreadable(r)
          /\ \E i \in 1..Len(md_files) :
                md_files[i] = r /\ fs[SearchIndexFile].records[i].text # << >>

(***************************************************************************)
(* The length of the sanitized stem                                        *)
(***************************************************************************)

\* the stem after the invalid and control characters are dealt with and the
\* ends are trimmed, and the three reasons for a hash suffix
Cleaned(s) == strip(RemoveControl(ReplaceInvalid(s)), {" ", "."})
Altered(s) == Cleaned(s) # s
TooLong(s) == Len(Cleaned(s)) > max_len
ReservedName(s) == upper(Take(Cleaned(s), max_len)) \in WINDOWS_RESERVED_NAMES
HashSuffix == <<"-">> \o md5[arg_rel]

\* C23: the stem the Path Mapper returns is never longer than max_len (80)
\* characters, suffix and reserved-name marker included, and when the input stem
\* was altered by the cleaning, was too long or was a reserved name, the result
\* ends with '-' and the 6 hex digits of the hash.
C23_LengthBound ==
    pc = "sanitized" =>
        /\ Len(ret_stem) <= max_len
        /\ (Altered(arg_stem) \/ TooLong(arg_stem) \/ ReservedName(arg_stem)) =>
              /\ Len(HashSuffix) = 7
              /\ endswith(ret_stem, HashSuffix)

\* a stem longer than max_len came out with exactly max_len characters, the
\* last 7 of them the suffix; and an altered stem of max_len characters was cut
C23_Witness ==
    /\ pc = "sanitized"
    /\ Len(ret_stem) = max_len
    /\ endswith(ret_stem, HashSuffix)
    /\ \/ TooLong(arg_stem) /\ ~Altered(arg_stem)
       \/ Altered(arg_stem) /\ ~TooLong(arg_stem) /\ Len(arg_stem) = max_len

(***************************************************************************)
(* The clean build                                                         *)
(***************************************************************************)

FilesUnder(f, root) == { q \in DOMAIN f : Under(q, root) }

\* the file q of the output directory holds what this run writes there: a page,
\* the search index, the search page, or the bytes of the input file of the
\* same relative path
ProducedByRun(q) ==
    \/ IsPage(fs[q])
    \/ q = output_root \o << Assets, SearchIndexJson >> /\ fs[q] = search_index_json
    \/ q = output_root \o << SearchHtml >> /\ fs[q] = search_html
    \/ LET src == input_root \o relative_to(q, output_root)
       IN  src \in DOMAIN fs_start /\ fs[q] = fs_start[src]

\* C24: in a run with a valid input root nothing is written before the output
\* directory has been removed and recreated: when the copy of the assets starts
\* the output directory exists and is empty; and when the build has ended every
\* file of the output directory was written by this run, none is left over from
\* a previous one.
C24_CleanBuild ==
    /\ pc \in {"main", "prepare", "mkdir"} => FilesUnder(fs, output_root) \subseteq DOMAIN fs_start
    /\ pc = "copy_assets" =>
          /\ output_root \in dirs
          /\ FilesUnder(fs, output_root) = {}
          /\ { d \in dirs : Under(d, output_root) } = {output_root}
    /\ pc = "done" =>
          /\ \A q \in FilesUnder(fs, output_root) : ProducedByRun(q)

\* a build has ended that found a file of a previous run in the output
\* directory and wrote a page and an asset
C24_Witness ==
    /\ pc = "done"
    /\ (output_root \o << OldHtml >>) \in DOMAIN fs_start
    /\ (output_root \o << OldHtml >>) \notin DOMAIN fs
    /\ \E q \in FilesUnder(fs, output_root) : IsPage(fs[q])
    /\ \E q \in FilesUnder(fs, output_root) : "bytes" \in DOMAIN fs[q] /\ q # output_root \o << SearchHtml >>

(***************************************************************************)
(* The navigation tree and the flat list                                   *)
(***************************************************************************)

\* the Documents the navigation tree links to
NavDocs == DOMAIN nav_root.files

\* C25: when the build has ended, the Documents linked from the navigation
\* tree are exactly the Documents of the flat list, and the page of each of
\* them has been written.
C25_NavMatchesPages ==
    pc = "done" => (NavDocs = ListedDocs /\ NavDocs = PagedDocs)

(***************************************************************************)
(* The depth of the embeds                                                 *)
(***************************************************************************)

\* the text of a Document as the embed precomputation reads it
RawText(q) == IF fs[input_root \o q].readable THEN fs[input_root \o q].text ELSE << >>

\* a page has been rewritten in this build
PageRewritten == pc \in {"pages", "search", "done", "crashed"} /\ current_md_path # None

\* C26: the rewriting of a page is one pass over its text that gives one embed
\* block for each resolved marker and nothing more, whatever the references
\* between the Documents are (a Document naming itself, Documents naming each
\* other): the output is never longer than the text, and the body of each
\* block is the target's own text converted as it was read, its markers still
\* in it and none of them expanded.
C26_OneLevelDeep ==
    PageRewritten =>
        LET rs == ResolvedMarkers(md_text)
            es == Embeds(md_text_embeds)
        IN  /\ Len(es) = Len(rs)
            /\ Len(md_text_embeds) <= Len(md_text)
            /\ \A k \in 1..Len(es) :
                  /\ es[k].inner_html = convert_markdown_to_html(RawText(es[k].target_md))
                  /\ ScanMarkers(es[k].inner_html.html_of, 1) = ScanMarkers(RawText(es[k].target_md), 1)

\* the page of a Document whose text names the Document itself is one embed
\* block, of that Document, with the marker still in its body
C26_Witness ==
    /\ PageRewritten
    /\ Len(md_text_embeds) = 1
    /\ Len(Embeds(md_text_embeds)) = 1
    /\ Embeds(md_text_embeds)[1].target_md = current_md_path
    /\ Len(ScanMarkers(Embeds(md_text_embeds)[1].inner_html.html_of, 1)) = 1

(***************************************************************************)
(* Markers that name a Document by its filename stem                       *)
(***************************************************************************)

\* the markers of the rewritten page whose token is the raw filename stem of
\* the listed Document q, as positions in the list of resolved markers
StemMarkers(q) ==
    { k \in 1..Len(ResolvedMarkers(md_text)) : Token(ResolvedMarkers(md_text)[k]) = stem(q) }

\* the earliest Document of the flat list that is known by the key k
EarliestWithKey(k) ==
    md_files[CHOOSE i \in 1..Len(md_files) :
                HasKey(i, k) /\ \A j \in 1..Len(md_files) : HasKey(j, k) => i <= j]

\* C27 as stated: a marker whose token is the raw filename stem of a listed
\* Document resolves to that Document, so no Document is shadowed by an earlier
\* Document's ordinal-stripped stem or title.
C27_StemResolvesToItself ==
    pc = "rewritten" =>
        \A q \in ListedDocs : \A k \in StemMarkers(q) :
            Embeds(md_text_embeds)[k].target_md = q

\* C27, amended: a marker whose token is the raw filename stem of a listed
\* Document is always resolved, and it resolves to the earliest Document of the
\* flat list that has the lowercased stem among its keys (raw stem,
\* ordinal-stripped stem, title): to the Document itself exactly when no
\* earlier Document has that key.
C27_StemResolvesToEarliest ==
    pc = "rewritten" =>
        \A q \in ListedDocs :
            /\ \A j \in 1..Len(ScanMarkers(md_text, 1)) :
                  Token(ScanMarkers(md_text, 1)[j]) = stem(q) => Hit(ScanMarkers(md_text, 1)[j])
            /\ \A k \in StemMarkers(q) :
                  /\ Embeds(md_text_embeds)[k].target_md = EarliestWithKey(lower(stem(q)))
                  /\ Embeds(md_text_embeds)[k].target_md = q <=>
                        \A i, j \in 1..Len(md_files) :
                            (md_files[j] = q /\ HasKey(i, lower(stem(q)))) => j <= i

\* a marker that names a Document by its stem was resolved to an earlier
\* Document whose ordinal-stripped stem is the same key
C27_Witness ==
    /\ pc = "rewritten"
    /\ \E q \in ListedDocs : \E k \in StemMarkers(q) :
          /\ Embeds(md_text_embeds)[k].target_md # q
          /\ lower(strip_numeric_prefix(stem(Embeds(md_text_embeds)[k].target_md))) = lower(stem(q))

(***************************************************************************)
(* A Document that cannot be read                                          *)
(***************************************************************************)

SearchFiles == { output_root \o << Assets, SearchIndexJson >>, output_root \o << SearchHtml >> }

\* the output directory has been removed and made again
OutputCleaned == pc \notin {"main", "exit_error", "prepare"}

\* the search files in the output directory that are no copy of an input file
WrittenSearchFiles ==
    { q \in SearchFiles \cap DOMAIN fs :
        LET src == input_root \o relative_to(q, output_root)
        IN  ~(src \in DOMAIN fs_start /\ fs[q] = fs_start[src]) }

\* the Documents the per-page loop has gone through
PagesSoFar == { md_files[page_order[i]] : i \in 1..loop_i }

\* C28: once the output directory has been cleaned, the search index and the
\* search page are written to it only at the end of a build, with the page of
\* every listed Document already there.
\* A listed Document that cannot be read does not stop the precomputation of
\* the embeds, which takes its text as empty, but a build never gets past the
\* per-page loop with such a Document: it ends at that Document's turn, the
\* pages written before it are in place, and there is no search index and no
\* search page.
C28_UnreadableAborts ==
    /\ (OutputCleaned /\ WrittenSearchFiles # {}) =>
          /\ pc = "done"
          /\ WrittenSearchFiles = SearchFiles
          /\ \A q \in ListedDocs : OutputOf(q) \in DOMAIN fs /\ IsPage(fs[OutputOf(q)])
    /\ pc \in {"search", "done"} => \A q \in ListedDocs : ~Unreadable(q)
    /\ pc = "crashed" =>
          /\ loop_i < Len(md_files)
          /\ Unreadable(md_files[page_order[loop_i + 1]])
          /\ DOMAIN embed_html_map = ListedDocs
          /\ embed_html_map[md_files[page_order[loop_i + 1]]] = convert_markdown_to_html(<< >>)
          /\ \A q \in PagesSoFar : OutputOf(q) \in DOMAIN fs /\ IsPage(fs[OutputOf(q)])
          /\ WrittenSearchFiles = {}

\* a build has ended at a Document that cannot be read after it wrote the page
\* of another one
C28_Witness ==
    /\ pc = "crashed"
    /\ loop_i >= 1
    /\ \E q \in PagesSoFar : ~Unreadable(q) /\ IsPage(fs[OutputOf(q)])
    /\ fs_start[input_root \o md_files[page_order[loop_i + 1]]].text # << >>

====
